---- MODULE Spec2Model ----
(***************************************************************************)
(* data_importer.py: parse_and_import_data and setup_database.             *)
(*                                                                         *)
(* The importer connects to a SQLite file, creates the user_mapping table, *)
(* globs qb*.txt in DATA_DIR (falling back to the working directory),      *)
(* extracts every (\d+)----(\d+) match of every file, reverses each pair   *)
(* into (uid, phone_number) and writes the pairs with INSERT OR REPLACE in *)
(* batches of batch_size, committing after every batch.                    *)
(*                                                                         *)
(* File contents are sequences of one-character strings; BAD stands for a  *)
(* byte sequence that is not valid UTF-8.  The table is the sequence of    *)
(* its rows in rowid order.                                                *)
(***************************************************************************)
EXTENDS Integers, Sequences, FiniteSets, TLC

\* ------------------------------------------------------------------ bounds
MaxLines  == 2      \* lines of text over all the files of one directory
MaxFiles  == 2      \* files one glob returns
MaxBatch  == 2      \* largest batch threshold tried (the code's is 50000)
MaxDigits == 2      \* longest digit string of a single-record file

\* ------------------------------------------------------------ the alphabet
BAD    == "BAD"
NL     == "\n"
Hyphen == "-"
Digits == {"1", "2"}
Sep    == <<Hyphen, Hyphen, Hyphen, Hyphen>>

DigitStrings == UNION {[1..n -> Digits] : n \in 1..MaxDigits}

LineA == <<"1">> \o Sep \o <<"2">>                  \* 1----2
LineB == <<"2">> \o Sep \o <<"1">>                  \* 2----1
LineC == <<"1", "2">> \o Sep \o <<"2", ",">> \o LineB   \* 12----2,2----1
LineD == <<"1", Hyphen>> \o Sep \o <<"2">>          \* 1-----2  (five hyphens)
LineE == <<"2", BAD, "2">> \o Sep \o <<"1">>        \* 2<bad byte>2----1
Lines == {LineA, LineC, LineD, LineE}

RECURSIVE Join(_)
Join(ls) == IF ls = <<>> THEN <<>> ELSE Head(ls) \o <<NL>> \o Join(Tail(ls))

TextFile(bytes) == [kind |-> "text", bytes |-> bytes]
Denied   == [kind |-> "denied",   bytes |-> <<>>]   \* open() raises PermissionError
Vanished == [kind |-> "vanished", bytes |-> <<>>]   \* removed after the glob

LineSeqs(n) == UNION {[1..k -> Lines] : k \in 0..n}

RECURSIVE FileListsOf(_, _)
FileListsOf(k, n) ==
    IF k = 0 THEN {<<>>}
    ELSE UNION {{<<TextFile(Join(ls))>> \o r : r \in FileListsOf(k - 1, n - Len(ls))}
                  : ls \in LineSeqs(n)}
         \cup {<<u>> \o r : u \in {Denied, Vanished}, r \in FileListsOf(k - 1, n)}

GeneralLists == UNION {FileListsOf(k, MaxLines) : k \in 0..MaxFiles}
RecordLists  == {<<TextFile(a \o Sep \o b)>> : a \in DigitStrings, b \in DigitStrings}
FileLists    == GeneralLists \cup RecordLists
Decoy        == <<TextFile(Join(<<LineB>>))>>

\* ------------------------------------------------------- pure computations
\* open(..., encoding='utf-8', errors='ignore').read()
Decode(bytes) == SelectSeq(bytes, LAMBDA c : c # BAD)

IsDigit(c) == c \in Digits

\* the index after the longest run of digits of s that starts at i  (\d+)
RECURSIVE DigitRunEnd(_, _)
DigitRunEnd(s, i) ==
    IF i <= Len(s) /\ IsDigit(s[i]) THEN DigitRunEnd(s, i + 1) ELSE i

\* an attempt to match (\d+)----(\d+) at position i of s
MatchAt(s, i) ==
    LET j  == DigitRunEnd(s, i)
        ok == /\ j > i
              /\ j + 4 <= Len(s)
              /\ \A d \in 0..3 : s[j + d] = Hyphen
              /\ IsDigit(s[j + 4])
        k  == IF ok THEN DigitRunEnd(s, j + 4) ELSE i
    IN  [ok |-> ok,
         pair |-> IF ok THEN <<SubSeq(s, i, j - 1), SubSeq(s, j + 4, k - 1)>>
                  ELSE <<>>,
         end |-> k]

\* re.findall(r'(\d+)----(\d+)', content): the non-overlapping matches from
\* the left, each a (phone, uid) pair of groups
RECURSIVE FindAllFrom(_, _)
FindAllFrom(s, i) ==
    IF i > Len(s) THEN <<>>
    ELSE LET m == MatchAt(s, i)
         IN  IF m.ok THEN <<m.pair>> \o FindAllFrom(s, m.end)
             ELSE FindAllFrom(s, i + 1)

FindAll(s) == FindAllFrom(s, 1)

\* batch_data.append((uid, phone)) for phone, uid in records
RemapSwapped(pair) == [uid |-> pair[1], phone |-> pair[2]]
Remap(pair) == [uid |-> pair[2], phone |-> pair[1]]

\* INSERT OR REPLACE of one row into a table whose primary key is uid
InsertOrIgnore(tbl, row) ==
    IF \E i \in 1..Len(tbl) : tbl[i].uid = row.uid THEN tbl ELSE Append(tbl, row)
InsertPlain(tbl, row) == Append(tbl, row)
InsertOrReplace(tbl, row) ==
    Append(SelectSeq(tbl, LAMBDA r : r.uid # row.uid), row)

\* executemany(INSERT OR REPLACE ..., rows)
RECURSIVE ExecuteMany(_, _)
ExecuteMany(tbl, rows) ==
    IF rows = <<>> THEN tbl
    ELSE ExecuteMany(InsertOrReplace(tbl, Head(rows)), Tail(rows))

\* glob.glob(os.path.join(DATA_DIR, 'qb*.txt')): empty when DATA_DIR is absent
GlobDataDir(exists, files) == IF exists THEN files ELSE <<>>

\* if len(batch_data) >= batch_size
ThresholdLate(batch, size) == Len(batch) > size
ThresholdReached(batch, size) == Len(batch) >= size

\* if batch_data:   (the remainder after the last file)
FinalFlushNever(batch) == FALSE
FinalFlushNeeded(batch) == batch # <<>>

\* if not all_files: ... return   (after the working-directory glob)
EarlyReturnNever(files) == FALSE
EarlyReturn(files) == files = <<>>

\* the exception open(file_path) raises, "none" when it opens
OpenNeverRaises(f) == "none"
OpenRaises(f) ==
    CASE f.kind = "denied"   -> "oserror"
      [] f.kind = "vanished" -> "fnf"
      [] OTHER               -> "none"

\* the process exit status once exception e has left the try block
ExitStatusSwallow(e) == 0
ExitStatus(e) == IF e = "none" THEN 0 ELSE 1

\* if conn:   (in the finally clause)
ConnNeverClosed(c) == FALSE
ConnTruthy(c) == c # "none"

\* ------------------------------------------------------------------- state
VARIABLES
    dirExists,      \* DATA_DIR exists
    dirFiles,       \* the qb*.txt files of DATA_DIR, in glob order
    cwdFiles,       \* the qb*.txt files of the working directory
    batch_size,     \* line 48
    durable,        \* user_mapping as committed in uid_phone_map.db
    schema,         \* user_mapping and its index exist
    work,           \* user_mapping as the connection sees it (open transaction)
    conn,           \* "none" | "open" | "closed"
    closeCount,     \* calls of conn.close() in this run
    pc,             \* position in parse_and_import_data
    all_files, fileIdx, records, recIdx, batch_data, total_records,
    cwdGlobbed,     \* glob.glob('qb*.txt') was called
    exc,            \* the exception that left the try block, "none" if none
    errMsg,         \* the error line printed
    reported,       \* <<n>> once "Import complete! Total records imported: n"
    exitCode,       \* the process exit status
    second,         \* this is the second run against the same files
    table0,         \* the committed table when this run started
    committed       \* records committed by this run

vars == <<dirExists, dirFiles, cwdFiles, batch_size, durable, schema, work, conn,
          closeCount, pc, all_files, fileIdx, records, recIdx, batch_data,
          total_records, cwdGlobbed, exc, errMsg, reported, exitCode, second,
          table0, committed>>

inputs == <<dirExists, dirFiles, cwdFiles, batch_size>>
locals == <<all_files, fileIdx, records, recIdx, batch_data, total_records>>
outcome == <<exc, errMsg, reported, exitCode>>
history == <<second, table0, committed>>

Init ==
    /\ dirExists \in BOOLEAN
    /\ dirFiles \in FileLists
    /\ cwdFiles \in FileLists
    /\ ~dirExists => dirFiles = <<>>
    /\ (dirFiles # <<>> \/ ~dirExists) => cwdFiles \in {<<>>, Decoy}
    /\ batch_size \in 1..MaxBatch
    /\ durable = <<>>
    /\ schema = FALSE
    /\ work = <<>>
    /\ conn = "none"
    /\ closeCount = 0
    /\ pc = "connect"
    /\ all_files = <<>>
    /\ fileIdx = 0
    /\ records = <<>>
    /\ recIdx = 0
    /\ batch_data = <<>>
    /\ total_records = 0
    /\ cwdGlobbed = FALSE
    /\ exc = "none"
    /\ errMsg = "none"
    /\ reported = <<>>
    /\ exitCode = 0
    /\ second = FALSE
    /\ table0 = <<>>
    /\ committed = 0

\* where the loop over records goes on: the next record, or the next file
AfterRecord(idx, recs) == IF idx < Len(recs) THEN "records" ELSE "loop"

Raise(e) == /\ exc' = e
            /\ pc' = "except"
            /\ UNCHANGED <<errMsg, reported, exitCode>>

\* ----------------------------------------------------------------- actions
Connect ==
    /\ pc = "connect"
    /\ conn' = "open"
    /\ work' = durable
    /\ pc' = "setup"
    /\ UNCHANGED <<inputs, durable, schema, closeCount, locals, cwdGlobbed,
                   outcome, history>>

ConnectFail ==
    /\ pc = "connect"
    /\ Raise("sqlite")
    /\ UNCHANGED <<inputs, durable, schema, work, conn, closeCount, locals,
                   cwdGlobbed, history>>

SetupDatabase ==
    /\ pc = "setup"
    /\ schema' = TRUE
    /\ pc' = "glob"
    /\ UNCHANGED <<inputs, durable, work, conn, closeCount, locals, cwdGlobbed,
                   outcome, history>>

SetupDatabaseFail ==
    /\ pc = "setup"
    /\ Raise("sqlite")
    /\ UNCHANGED <<inputs, durable, schema, work, conn, closeCount, locals,
                   cwdGlobbed, history>>

GlobFiles ==
    /\ pc = "glob"
    /\ LET first == GlobDataDir(dirExists, dirFiles)
       IN  IF first # <<>>
           THEN /\ all_files' = first
                /\ cwdGlobbed' = FALSE
                /\ pc' = "loop"
           ELSE /\ all_files' = cwdFiles
                /\ cwdGlobbed' = TRUE
                /\ pc' = IF EarlyReturn(cwdFiles) THEN "finally" ELSE "loop"
    /\ total_records' = 0
    /\ batch_data' = <<>>
    /\ UNCHANGED <<inputs, durable, schema, work, conn, closeCount, fileIdx,
                   records, recIdx, outcome, history>>

NextFile ==
    /\ pc = "loop"
    /\ fileIdx < Len(all_files)
    /\ OpenRaises(all_files[fileIdx + 1]) = "none"
    /\ fileIdx' = fileIdx + 1
    /\ records' = FindAll(Decode(all_files[fileIdx + 1].bytes))
    /\ recIdx' = 0
    /\ pc' = AfterRecord(0, records')
    /\ UNCHANGED <<inputs, durable, schema, work, conn, closeCount, all_files,
                   batch_data, total_records, cwdGlobbed, outcome, history>>

OpenFail ==
    /\ pc = "loop"
    /\ fileIdx < Len(all_files)
    /\ OpenRaises(all_files[fileIdx + 1]) # "none"
    /\ fileIdx' = fileIdx + 1
    /\ Raise(OpenRaises(all_files[fileIdx + 1]))
    /\ UNCHANGED <<inputs, durable, schema, work, conn, closeCount, all_files,
                   records, recIdx, batch_data, total_records, cwdGlobbed, history>>

NextRecord ==
    /\ pc = "records"
    /\ recIdx < Len(records)
    /\ batch_data' = Append(batch_data, Remap(records[recIdx + 1]))
    /\ total_records' = total_records + 1
    /\ recIdx' = recIdx + 1
    /\ pc' = IF ThresholdReached(batch_data', batch_size) THEN "exec"
             ELSE AfterRecord(recIdx', records)
    /\ UNCHANGED <<inputs, durable, schema, work, conn, closeCount, all_files,
                   fileIdx, records, cwdGlobbed, outcome, history>>

ExecuteBatch ==
    /\ pc = "exec"
    /\ work' = ExecuteMany(work, batch_data)
    /\ pc' = "commit"
    /\ UNCHANGED <<inputs, durable, schema, conn, closeCount, locals, cwdGlobbed,
                   outcome, history>>

ExecuteBatchFail ==
    /\ pc = "exec"
    /\ \E j \in 0..(Len(batch_data) - 1) :
           work' = ExecuteMany(work, SubSeq(batch_data, 1, j))
    /\ Raise("sqlite")
    /\ UNCHANGED <<inputs, durable, schema, conn, closeCount, locals, cwdGlobbed,
                   history>>

CommitBatch ==
    /\ pc = "commit"
    /\ durable' = work
    /\ committed' = committed + Len(batch_data)
    /\ batch_data' = <<>>
    /\ pc' = AfterRecord(recIdx, records)
    /\ UNCHANGED <<inputs, schema, work, conn, closeCount, all_files, fileIdx,
                   records, recIdx, total_records, cwdGlobbed, outcome, second,
                   table0>>

CommitBatchFail ==
    /\ pc = "commit"
    /\ Raise("sqlite")
    /\ UNCHANGED <<inputs, durable, schema, work, conn, closeCount, locals,
                   cwdGlobbed, history>>

EndLoop ==
    /\ pc = "loop"
    /\ fileIdx = Len(all_files)
    /\ pc' = IF FinalFlushNeeded(batch_data) THEN "final_exec" ELSE "report"
    /\ UNCHANGED <<inputs, durable, schema, work, conn, closeCount, locals,
                   cwdGlobbed, outcome, history>>

ExecuteFinal ==
    /\ pc = "final_exec"
    /\ work' = ExecuteMany(work, batch_data)
    /\ pc' = "final_commit"
    /\ UNCHANGED <<inputs, durable, schema, conn, closeCount, locals, cwdGlobbed,
                   outcome, history>>

ExecuteFinalFail ==
    /\ pc = "final_exec"
    /\ \E j \in 0..(Len(batch_data) - 1) :
           work' = ExecuteMany(work, SubSeq(batch_data, 1, j))
    /\ Raise("sqlite")
    /\ UNCHANGED <<inputs, durable, schema, conn, closeCount, locals, cwdGlobbed,
                   history>>

CommitFinal ==
    /\ pc = "final_commit"
    /\ durable' = work
    /\ committed' = committed + Len(batch_data)
    /\ pc' = "report"
    /\ UNCHANGED <<inputs, schema, work, conn, closeCount, locals, cwdGlobbed,
                   outcome, second, table0>>

CommitFinalFail ==
    /\ pc = "final_commit"
    /\ Raise("sqlite")
    /\ UNCHANGED <<inputs, durable, schema, work, conn, closeCount, locals,
                   cwdGlobbed, history>>

Report ==
    /\ pc = "report"
    /\ reported' = <<total_records>>
    /\ pc' = "finally"
    /\ UNCHANGED <<inputs, durable, schema, work, conn, closeCount, locals,
                   cwdGlobbed, exc, errMsg, exitCode, history>>

\* except sqlite3.Error as e: print(...); sys.exit(1)
HandleSqliteError ==
    /\ pc = "except"
    /\ exc = "sqlite"
    /\ errMsg' = "SQLite Error"
    /\ exitCode' = ExitStatus(exc)
    /\ pc' = "finally"
    /\ UNCHANGED <<inputs, durable, schema, work, conn, closeCount, locals,
                   cwdGlobbed, exc, reported, history>>

\* except FileNotFoundError: print(...); sys.exit(1)
HandleFileNotFound ==
    /\ pc = "except"
    /\ exc = "fnf"
    /\ errMsg' = "Directory not found"
    /\ exitCode' = ExitStatus(exc)
    /\ pc' = "finally"
    /\ UNCHANGED <<inputs, durable, schema, work, conn, closeCount, locals,
                   cwdGlobbed, exc, reported, history>>

\* any other exception matches no handler: the interpreter prints the
\* traceback and exits with status 1 once the finally clause has run
Propagate ==
    /\ pc = "except"
    /\ exc = "oserror"
    /\ errMsg' = "Traceback"
    /\ exitCode' = ExitStatus(exc)
    /\ pc' = "finally"
    /\ UNCHANGED <<inputs, durable, schema, work, conn, closeCount, locals,
                   cwdGlobbed, exc, reported, history>>

\* finally: if conn: conn.close()    (close() rolls an open transaction back)
Finally ==
    /\ pc = "finally"
    /\ IF ConnTruthy(conn)
       THEN /\ conn' = "closed"
            /\ closeCount' = closeCount + 1
            /\ work' = durable
       ELSE UNCHANGED <<conn, closeCount, work>>
    /\ pc' = "done"
    /\ UNCHANGED <<inputs, durable, schema, locals, cwdGlobbed, outcome, history>>

\* the process is terminated: memory is lost, the database file keeps what
\* was committed (the journal rolls an open transaction back)
Kill ==
    /\ pc \notin {"done", "killed"}
    /\ pc' = "killed"
    /\ work' = durable
    /\ conn' = "none"
    /\ closeCount' = 0
    /\ all_files' = <<>>
    /\ fileIdx' = 0
    /\ records' = <<>>
    /\ recIdx' = 0
    /\ batch_data' = <<>>
    /\ total_records' = 0
    /\ cwdGlobbed' = FALSE
    /\ exc' = "none"
    /\ errMsg' = "none"
    /\ reported' = <<>>
    /\ exitCode' = 0
    /\ UNCHANGED <<inputs, durable, schema, history>>

\* the script is run again on the same files and the same database file
Rerun ==
    /\ pc = "done"
    /\ exitCode = 0
    /\ ~second
    /\ second' = TRUE
    /\ table0' = durable
    /\ committed' = 0
    /\ pc' = "connect"
    /\ conn' = "none"
    /\ closeCount' = 0
    /\ work' = durable
    /\ all_files' = <<>>
    /\ fileIdx' = 0
    /\ records' = <<>>
    /\ recIdx' = 0
    /\ batch_data' = <<>>
    /\ total_records' = 0
    /\ cwdGlobbed' = FALSE
    /\ exc' = "none"
    /\ errMsg' = "none"
    /\ reported' = <<>>
    /\ exitCode' = 0
    /\ UNCHANGED <<inputs, durable, schema>>

Next ==
    \/ Connect \/ ConnectFail
    \/ SetupDatabase \/ SetupDatabaseFail
    \/ GlobFiles
    \/ NextFile \/ OpenFail
    \/ NextRecord
    \/ ExecuteBatch \/ ExecuteBatchFail
    \/ CommitBatch \/ CommitBatchFail
    \/ EndLoop
    \/ ExecuteFinal \/ ExecuteFinalFail
    \/ CommitFinal \/ CommitFinalFail
    \/ Report
    \/ HandleSqliteError \/ HandleFileNotFound \/ Propagate
    \/ Finally
    \/ Kill
    \/ Rerun

Spec == Init /\ [][Next]_vars

\* ------------------------------------------------------ what a run is given
\* the files the run enumerates: DATA_DIR's, else the working directory's
Selected ==
    LET first == GlobDataDir(dirExists, dirFiles)
    IN  IF first # <<>> THEN first ELSE cwdFiles

Unreadable(f) == f.kind # "text"
HasUnreadable(files) == \E i \in 1..Len(files) : Unreadable(files[i])
HasBadBytes(files) ==
    \E i \in 1..Len(files) : \E j \in 1..Len(files[i].bytes) : files[i].bytes[j] = BAD

RECURSIVE RemapAll(_)
RemapAll(pairs) ==
    IF pairs = <<>> THEN <<>> ELSE <<Remap(Head(pairs))>> \o RemapAll(Tail(pairs))

\* the canonical records of one readable file, in order of appearance
RecordsOf(f) == RemapAll(FindAll(Decode(f.bytes)))

\* the records of every readable file of the list, in file order
RECURSIVE ReadableStream(_)
ReadableStream(files) ==
    IF files = <<>> THEN <<>>
    ELSE (IF Unreadable(Head(files)) THEN <<>> ELSE RecordsOf(Head(files)))
         \o ReadableStream(Tail(files))

\* the records of the files that precede the first unreadable one
RECURSIVE StreamUntilBad(_)
StreamUntilBad(files) ==
    IF files = <<>> \/ Unreadable(Head(files)) THEN <<>>
    ELSE RecordsOf(Head(files)) \o StreamUntilBad(Tail(files))

Stream == StreamUntilBad(Selected)

RowSet(tbl) == {tbl[i] : i \in 1..Len(tbl)}
Keys(tbl) == {tbl[i].uid : i \in 1..Len(tbl)}
Completed == pc = "done" /\ exc = "none"

\* ------------------------------------------------------------------ claims

\* C1  Reversal: a file that consists of the one record A----B leaves a row
\* with uid B and phone_number A, and that record creates no row keyed by A.
ReversalInvariant ==
    (Completed /\ Len(all_files) = 1 /\ all_files[1].kind = "text") =>
        \A a \in DigitStrings, b \in DigitStrings :
            all_files[1].bytes \in {a \o Sep \o b, a \o Sep \o b \o <<NL>>}
            => /\ [uid |-> b, phone |-> a] \in RowSet(durable)
               /\ Len(durable) = 1
               /\ a # b => a \notin Keys(durable)

ReversalWitness ==
    /\ Completed
    /\ ~second
    /\ all_files = <<TextFile(<<"1", "2">> \o Sep \o <<"2", "1">>)>>
    /\ durable = <<[uid |-> <<"2", "1">>, phone |-> <<"1", "2">>]>>

\* C2  Last write wins: after a completed run every uid that occurs in more
\* than one record holds the phone of its last occurrence in file-then-line
\* order, whatever the batches the occurrences fell in.
LastWriteWins ==
    Completed =>
        LET s == Stream
        IN  \A i \in 1..Len(s) : \A j \in (i + 1)..Len(s) :
                (/\ s[i].uid = s[j].uid
                 /\ \A l \in (j + 1)..Len(s) : s[l].uid # s[j].uid)
                => /\ s[j] \in RowSet(durable)
                   /\ Cardinality({n \in 1..Len(durable) : durable[n].uid = s[j].uid}) = 1

LastWriteWinsWitness ==
    /\ Completed
    /\ ~second
    /\ batch_size = 1
    /\ all_files = <<TextFile(Join(<<LineA>>)), TextFile(Join(<<LineC>>))>>
    /\ durable = <<[uid |-> <<"2">>, phone |-> <<"1", "2">>],
                   [uid |-> <<"1">>, phone |-> <<"2">>]>>

\* C3  Idempotent re-run: a second completed run on the same files leaves the
\* rows of the first run, none duplicated, none changed.
IdempotentRerun ==
    (second /\ Completed) =>
        /\ RowSet(durable) = RowSet(table0)
        /\ Cardinality(Keys(durable)) = Len(durable)

IdempotentRerunWitness ==
    /\ second
    /\ Completed
    /\ batch_size = 1
    /\ all_files = <<TextFile(Join(<<LineA, LineC>>))>>
    /\ committed = 3
    /\ durable = table0
    /\ Len(durable) = 2

\* C4  Batch-size independence: the table a completed run leaves is the
\* upsert of the whole record stream in order, which does not depend on
\* batch_size, and every extracted record has been committed.
BatchSizeIndependent ==
    Completed =>
        /\ durable = ExecuteMany(table0, ReadableStream(Selected))
        /\ committed = Len(ReadableStream(Selected))
        /\ committed = total_records

BatchBoundaryWitness ==
    /\ Completed
    /\ batch_size = 2
    /\ Len(Stream) = 2
    /\ committed = 2
    /\ Len(durable) = 2

\* C5  Prefix consistency: in every state, a killed run included, the
\* committed table is the upsert of the records of the batches committed so
\* far, a prefix of the stream that ends on a batch boundary, and at most
\* batch_size records are extracted and not yet committed.
PrefixConsistent ==
    LET s == Stream
    IN  /\ total_records - committed <= batch_size
        /\ Len(batch_data) <= batch_size
        /\ committed <= Len(s)
        /\ committed % batch_size = 0 \/ committed = Len(s)
        /\ durable = ExecuteMany(table0, SubSeq(s, 1, committed))

KilledMidRunWitness ==
    /\ pc = "killed"
    /\ committed > 0
    /\ committed < Len(Stream)
    /\ durable # <<>>

\* C6 (as stated)  No input: both globs empty => exit 0, schema present, no
\* row added, a reported total of 0, and the working directory is globbed
\* only when DATA_DIR yields nothing.
NoInputReportsZero ==
    /\ (pc = "done" /\ cwdGlobbed /\ all_files = <<>>)
       => /\ exitCode = 0
          /\ exc = "none"
          /\ schema
          /\ durable = table0
          /\ reported = <<0>>
    /\ cwdGlobbed => GlobDataDir(dirExists, dirFiles) = <<>>

\* C6 (amended)  No input: both globs empty => exit 0, schema present, no row
\* added, no record counted and no total reported (the function returns
\* before the "Import complete" line), the connection closed; the working
\* directory is globbed only when DATA_DIR yields nothing.
NoInputRun ==
    /\ (pc = "done" /\ cwdGlobbed /\ all_files = <<>>)
       => /\ exitCode = 0
          /\ exc = "none"
          /\ schema
          /\ durable = table0
          /\ total_records = 0
          /\ reported = <<>>
          /\ conn = "closed"
    /\ cwdGlobbed => GlobDataDir(dirExists, dirFiles) = <<>>

NoInputWitness ==
    /\ pc = "done"
    /\ dirExists
    /\ dirFiles = <<>>
    /\ cwdFiles = <<>>
    /\ cwdGlobbed
    /\ schema
    /\ exitCode = 0

\* C7  A missing DATA_DIR is fatal: the run ends with an error message and a
\* non-zero exit status.
MissingDirIsFatal ==
    (pc = "done" /\ ~dirExists) => (exitCode # 0 /\ errMsg # "none")

\* C8 (as stated)  A bad file does not abort: with an unreadable or
\* undecodable file in the list the run completes and the records of every
\* well-formed file are in the table.
BadFileDoesNotAbort ==
    (/\ pc = "done"
     /\ all_files # <<>>
     /\ exc # "sqlite"
     /\ HasUnreadable(all_files) \/ HasBadBytes(all_files))
    => /\ exitCode = 0
       /\ durable = ExecuteMany(table0, ReadableStream(all_files))

\* C8 (amended)  Undecodable bytes do not abort the run: they are dropped and
\* a run without storage error completes with the records of every file
\* upserted.  A file whose open fails aborts the run with exit status 1 at
\* that file: no later file is processed, nothing is reported, and the table
\* holds the batches committed before it.
BadFileHandling ==
    (/\ pc = "done"
     /\ all_files # <<>>
     /\ exc # "sqlite"
     /\ HasUnreadable(all_files) \/ HasBadBytes(all_files))
    => IF ~HasUnreadable(all_files)
       THEN /\ exitCode = 0
            /\ exc = "none"
            /\ durable = ExecuteMany(table0, ReadableStream(all_files))
       ELSE /\ exitCode = 1
            /\ exc \in {"fnf", "oserror"}
            /\ Unreadable(all_files[fileIdx])
            /\ \A i \in 1..(fileIdx - 1) : ~Unreadable(all_files[i])
            /\ reported = <<>>
            /\ committed <= Len(StreamUntilBad(all_files))
            /\ durable = ExecuteMany(table0,
                                     SubSeq(StreamUntilBad(all_files), 1, committed))

UndecodableWitness ==
    /\ Completed
    /\ ~second
    /\ Len(all_files) = 2
    /\ HasBadBytes(all_files)
    /\ [uid |-> <<"1">>, phone |-> <<"2", "2">>] \in RowSet(durable)
    /\ [uid |-> <<"2">>, phone |-> <<"1">>] \in RowSet(durable)

\* C9  A storage failure is fatal and not retried: the step that raises
\* sqlite3.Error commits nothing, and from then on nothing is committed, no
\* record, batch or file is processed, and the run ends closed with exit
\* status 1.
StorageFailureFatal ==
    [][/\ (exc = "none" /\ exc' = "sqlite")
          => (durable' = durable /\ committed' = committed /\ pc' = "except")
       /\ (exc = "sqlite" /\ pc' # "killed")
          => /\ exc' = "sqlite"
             /\ durable' = durable
             /\ committed' = committed
             /\ <<fileIdx, recIdx, total_records, batch_data>>' =
                    <<fileIdx, recIdx, total_records, batch_data>>
             /\ pc' \in {"finally", "done"}
             /\ pc' = "done" => (exitCode' = 1 /\ conn' # "open" /\ work' = durable)
      ]_vars

StorageFailureWitness ==
    /\ pc = "done"
    /\ exc = "sqlite"
    /\ exitCode = 1
    /\ conn = "closed"
    /\ committed > 0
    /\ total_records > committed
    /\ durable = ExecuteMany(table0, SubSeq(Stream, 1, committed))

\* C10  Connection release: once connected, the function is left on every
\* path with the connection closed exactly once, and a closed connection is
\* never used: it is closed only as the function is left, with no open
\* transaction.
ConnectionReleased ==
    /\ (pc = "done" /\ exc # "sqlite") => (conn = "closed" /\ closeCount = 1)
    /\ pc = "done" => conn # "open"
    /\ conn = "closed" => (pc = "done" /\ closeCount = 1 /\ work = durable)
    /\ closeCount <= 1

ReleasedAfterOpenFailWitness ==
    /\ pc = "done"
    /\ exc = "oserror"
    /\ conn = "closed"
    /\ closeCount = 1
    /\ exitCode = 1

====
